---- MODULE Spec2Model ----
(***************************************************************************)
(* CutMixCallback (src/my_callbacks/cutmix_callback.py): the callback's    *)
(* attributes, its three hooks and rand_bbox, driven by the host runner's  *)
(* hook order (loader start, then per batch: batch start, loss).           *)
(*                                                                         *)
(* Numbers: lambda and the loss are exact rationals <<num, den>> in lowest *)
(* terms; tensors are [shape, data] with 0-based index tuples, as in the   *)
(* source; criterion values are finite.                                    *)
(***************************************************************************)
EXTENDS Integers, Sequences, FiniteSets, TLC

VARIABLES
    args,         \* the constructor's arguments (fields, alpha, on_train_only)
    self,         \* the callback's attributes; no attribute before __init__ assigns
    pc,           \* where the host runner stands in its hook order
    err,          \* the exception that propagated to the runner, "none" if none
    loader_name,  \* state.loader_name
    input,        \* state.input: field tensors and targets of the current batch
    input0,       \* state.input as it was handed to on_batch_start
    output,       \* state.output[output_key]: the predictions
    loss,         \* the value _compute_loss returned
    draws,        \* what on_batch_start drew: beta sample, permutation, boxes
    bb_size,      \* rand_bbox alone: its size argument
    bb_lam,       \* rand_bbox alone: its lam argument
    bb_ret        \* rand_bbox alone: what it returned

vars == <<args, self, pc, err, loader_name, input, input0, output, loss, draws,
          bb_size, bb_lam, bb_ret>>

----------------------------------------------------------------------------
\* Bounds of the model.

\* Batch sizes are 1..MaxBatch.
MaxBatch == 2
\* Spatial extents of a field are 1..MaxDim.
MaxDim == 2
\* A beta sample is k/LamDen, k in 0..LamDen.
LamDen == 2
\* Spatial extents handed to rand_bbox alone are 1..BoxMaxDim.
BoxMaxDim == 5
\* lam handed to rand_bbox alone is k/d, d in 1..BoxLamDen, k in 0..d.
BoxLamDen == 5

----------------------------------------------------------------------------
\* Exact rational arithmetic for lam and the loss.

Max(a, b) == IF a >= b THEN a ELSE b
Min(a, b) == IF a <= b THEN a ELSE b
Abs(a) == IF a >= 0 THEN a ELSE -a

RECURSIVE GCD(_, _)
GCD(a, b) == IF b = 0 THEN a ELSE GCD(b, a % b)

\* n/d in lowest terms, d > 0.
Rat(n, d) ==
    LET g == GCD(Abs(n), d)
    IN  <<n \div g, d \div g>>

RatAdd(a, b) == Rat(a[1] * b[2] + b[1] * a[2], a[2] * b[2])
RatMul(a, b) == Rat(a[1] * b[1], a[2] * b[2])
RatOneMinus(a) == Rat(a[2] - a[1], a[2])
RatInt(k) == <<k, 1>>

----------------------------------------------------------------------------
\* Strings the code inspects are sequences of characters.

train == <<"t", "r", "a", "i", "n">>
valid == <<"v", "a", "l", "i", "d">>
trainval == train \o <<"v", "a", "l">>
xtrain == <<"x">> \o train
NoLoader == <<>>

LoaderNames == {train, valid, trainval, xtrain}

\* str.startswith
startswith(s, prefix) ==
    /\ Len(s) >= Len(prefix)
    /\ SubSeq(s, 1, Len(prefix)) = prefix

----------------------------------------------------------------------------
\* Tensors: [shape, data], data a function of the 0-based index tuples.

\* The index tuples of a tensor of the given shape.
IndexSet(shape) ==
    LET m == CHOOSE x \in {shape[k] : k \in 1..Len(shape)} :
                 \A k \in 1..Len(shape) : shape[k] <= x
    IN  {t \in [1..Len(shape) -> 0..(m - 1)] :
            \A k \in 1..Len(shape) : t[k] < shape[k]}

RECURSIVE Offset(_, _, _)
\* Row-major offset of the first k components of index tuple t.
Offset(shape, t, k) ==
    IF k = 0 THEN 0
    ELSE Offset(shape, t, k - 1) * shape[k] + t[k]

\* A tensor whose elements are pairwise different.
Arange(shape, base) ==
    [shape |-> shape,
     data  |-> [t \in IndexSet(shape) |-> base + Offset(shape, t, Len(shape))]]

\* torch.randperm(n): the permutations of 0..n-1, as sequences (index[i] of
\* the source is index[i + 1] here).
randperm(n) ==
    {p \in [1..n -> 0..(n - 1)] : \A i, j \in 1..n : p[i] = p[j] => i = j}

----------------------------------------------------------------------------
\* rand_bbox (lines 89-112).

\* int(W * sqrt(1. - lam)): the number of c >= 1 with c^2 <= W^2 * (1 - lam).
cut_len(W, lam) ==
    Cardinality({c \in 1..(W * Max(1, lam[2] - lam[1])) :
                    c * c * lam[2] <= W * W * (lam[2] - lam[1])})

\* The upper limit dropped.
clip_no_upper(a, a_min, a_max) == Max(a, a_min)

\* np.clip
clip(a, a_min, a_max) == Min(a_max, Max(a, a_min))

\* Lines 90-97: <<W, H>> of a size of rank 4 or 3, <<>> where the code raises.
size_WH(size) ==
    IF Len(size) = 4 THEN <<size[3], size[4]>>
    ELSE IF Len(size) = 3 THEN <<size[2], size[3]>>
    ELSE <<>>

\* The centres np.random.randint(W), np.random.randint(H) can draw.
Centres(size) ==
    IF size_WH(size) = <<>> THEN {<<0, 0>>}
    ELSE (0..(size_WH(size)[1] - 1)) \X (0..(size_WH(size)[2] - 1))

\* rand_bbox(size, lam) with the centre (cx, cy) it drew.
rand_bbox(size, lam, cx, cy) ==
    IF size_WH(size) = <<>> THEN [raised |-> "Exception", box |-> <<>>]
    ELSE IF lam[1] > lam[2] THEN [raised |-> "ValueError", box |-> <<>>]
    ELSE
        LET W == size_WH(size)[1]
            H == size_WH(size)[2]
            cut_w == cut_len(W, lam)
            cut_h == cut_len(H, lam)
            bbx1 == clip(cx - cut_w \div 2, 0, W)
            bby1 == clip(cy - cut_h \div 2, 0, H)
            bbx2 == clip(cx + cut_w \div 2, 0, W)
            bby2 == clip(cy + cut_h \div 2, 0, H)
        IN  [raised |-> "none", box |-> <<bbx1, bby1, bbx2, bby2>>]

----------------------------------------------------------------------------
\* The callback's attributes and the runner's state.

NoAttrs == [constructed |-> FALSE]
None == [none |-> TRUE]
Some(v) == [none |-> FALSE, v |-> v]
NoBatch == [empty |-> TRUE]
NoBox == [called |-> FALSE]
NoOutput == <<>>
NoLoss == <<>>
NoDraws == [lam |-> <<>>, index |-> <<>>, boxes |-> <<>>]

\* CriterionCallback's key into state.input (line 82).
input_key == "targets"

\* Constructor arguments: an empty and three non-empty field lists (one field,
\* two fields, one field listed twice); alpha below, at and above zero.
FieldLists ==
    {<<>>, <<"features">>, <<"features", "mask">>, <<"features", "features">>}
Alphas == {-1, 0, 1}
ArgSets ==
    [fields : FieldLists, alpha : Alphas, on_train_only : BOOLEAN]

\* Field tensors a batch of n samples can hold: rank 4 with size(2) in
\* 1..MaxDim and size(3) = MaxDim, and one tensor each of rank 3, 2 and 5.
FieldTensors(n, base) ==
    {Arange(<<n, 1, w, MaxDim>>, base) : w \in 1..MaxDim}
        \cup {Arange(<<1, MaxDim, MaxDim>>, base),
              Arange(<<MaxDim, MaxDim>>, base),
              Arange(<<n, 1, 1, MaxDim, MaxDim>>, base)}

Base(f) == IF f = "features" THEN 0 ELSE 100

\* Targets of a batch of n samples: the class of row i is i.
Targets(n) == {[i \in 1..n |-> i - 1]}

\* Predictions for a batch of n samples: every row right, every row 0, and
\* the classes in reverse order.
Preds(n) == {[i \in 1..n |-> i - 1], [i \in 1..n |-> 0], [i \in 1..n |-> n - i]}

\* The batches the runner hands to a callback that lists `fields`: state.input
\* holds the listed fields, all of one batch size, and the targets.
Batches(fields) ==
    LET names == {fields[k] : k \in 1..Len(fields)}
    IN  UNION {
          {[key \in names \cup {input_key} |->
                IF key = input_key THEN y ELSE ts[key]] :
              y \in Targets(n),
              ts \in {t \in [names -> UNION {FieldTensors(n, Base(f)) : f \in names}] :
                        \A f \in names : t[f] \in FieldTensors(n, Base(f))}}
          : n \in 1..MaxBatch}

BatchTable == [fields \in FieldLists |-> Batches(fields)]

\* np.random.beta(alpha, alpha), a value of [0, 1].
beta(alpha) == {Rat(k, LamDen) : k \in 0..LamDen}

\* The criterion: the L1 distance of predictions and targets.
criterion(pred, y) ==
    LET RECURSIVE sum(_)
        sum(i) == IF i = 0 THEN 0 ELSE Abs(pred[i] - y[i]) + sum(i - 1)
    IN  sum(Len(y))

----------------------------------------------------------------------------
RECURSIVE splice_rows(_, _, _, _)
\* Rows overwritten one after the other, each from the tensor as it stands.
splice_rows(x, index, box, row) ==
    IF row >= x.shape[1] THEN x
    ELSE splice_rows(
             [x EXCEPT !.data =
                 [t \in DOMAIN x.data |->
                     IF /\ t[1] = row
                        /\ box[1] <= t[3] /\ t[3] < box[3]
                        /\ box[2] <= t[4] /\ t[4] < box[4]
                     THEN x.data[<<index[row + 1], t[2], t[3], t[4]>>]
                     ELSE x.data[t]]],
             index, box, row + 1)

\* The overwrite done in place, row by row.
splice_inplace(x, index, box) == splice_rows(x, index, box, 0)

\* Line 74: rows of x inside the box take the content of row index[row].
splice(x, index, box) ==
    [x EXCEPT !.data =
        [t \in DOMAIN x.data |->
            IF /\ box[1] <= t[3] /\ t[3] < box[3]
               /\ box[2] <= t[4] /\ t[4] < box[4]
            THEN x.data[<<index[t[1] + 1], t[2], t[3], t[4]>>]
            ELSE x.data[t]]]

\* The area divided by one extent only.
area_lam_one_extent(size, box) ==
    RatOneMinus(Rat((box[3] - box[1]) * (box[4] - box[2]), size[Len(size)]))

\* The cut fraction stored in place of the kept fraction.
area_lam_cut(size, box) ==
    Rat((box[3] - box[1]) * (box[4] - box[2]),
        size[Len(size)] * size[Len(size) - 1])

\* Line 75: 1 - area of the box / (size()[-1] * size()[-2]).
area_lam(size, box) ==
    LET n == Len(size)
    IN  RatOneMinus(Rat((box[3] - box[1]) * (box[4] - box[2]),
                        size[n] * size[n - 1]))

RECURSIVE mix_loop(_, _, _, _, _)
\* Lines 72-75, from the k-th listed field on. st is [tensors, lam, boxes,
\* raised]; centres[k] is the centre rand_bbox draws for the k-th field.
mix_loop(fields, k, st, index, centres) ==
    IF k > Len(fields) THEN st
    ELSE
        LET f == fields[k]
            x == st.tensors[f]
            bb == rand_bbox(x.shape, st.lam, centres[k][1], centres[k][2])
        IN  IF bb.raised # "none" THEN [st EXCEPT !.raised = bb.raised]
            ELSE IF Len(x.shape) # 4 THEN [st EXCEPT !.raised = "IndexError"]
            ELSE mix_loop(fields, k + 1,
                     [tensors |-> [st.tensors EXCEPT ![f] = splice(x, index, bb.box)],
                      lam     |-> area_lam(x.shape, bb.box),
                      boxes   |-> Append(st.boxes,
                                    [field |-> f, size |-> x.shape, box |-> bb.box]),
                      raised  |-> "none"],
                     index, centres)

----------------------------------------------------------------------------
\* CutMixCallback.

\* The assertion on alpha dropped.
valid_args_no_alpha(a) == Len(a.fields) > 0

\* Lines 43-45: what the two assertions let through.
valid_args(a) == Len(a.fields) > 0 /\ a.alpha >= 0

\* Lines 49-54: the attributes __init__ assigns.
constructed(a) ==
    [constructed   |-> TRUE,
     on_train_only |-> a.on_train_only,
     fields        |-> a.fields,
     alpha         |-> a.alpha,
     lam           |-> RatInt(1),
     index         |-> None,
     is_needed     |-> TRUE]

\* Lines 24-54.
__init__ ==
    /\ pc = "new"
    /\ IF valid_args(args)
       THEN /\ self' = constructed(args)
            /\ pc' = "constructed"
            /\ err' = err
       ELSE /\ self' = self
            /\ pc' = "raised"
            /\ err' = "AssertionError"
    /\ UNCHANGED <<args, loader_name, input, input0, output, loss, draws,
                   bb_size, bb_lam, bb_ret>>

\* The flag carried over: once a phase was inactive, every later one is.
is_needed_sticky(cb, name) ==
    cb.is_needed /\ (~cb.on_train_only \/ startswith(name, train))

\* Lines 57-58: the value on_loader_start gives is_needed.
is_needed_for(cb, name) ==
    ~cb.on_train_only \/ startswith(name, train)

\* Lines 56-58. The runner starts a loader when no batch is in flight.
on_loader_start ==
    /\ pc \in {"constructed", "loader"}
    /\ \E name \in LoaderNames :
        /\ loader_name' = name
        /\ self' = [self EXCEPT !.is_needed = is_needed_for(self, name)]
    /\ pc' = "loader"
    /\ UNCHANGED <<args, err, input, input0, output, loss, draws,
                   bb_size, bb_lam, bb_ret>>

\* The guard dropped: the hooks never return early.
inactive_never(cb) == FALSE

\* Lines 61 and 78: the guard both hooks return early on.
inactive(cb) == ~cb.is_needed

\* The alpha = 0 branch dropped: lam is always a beta sample.
first_lam_always_beta(alpha) == {Rat(k, LamDen) : k \in 0..LamDen}

\* Lines 64-67: the values lam can take before the boxes are drawn.
first_lam(alpha) == IF alpha > 0 THEN beta(alpha) ELSE {RatInt(1)}

\* Line 69: the batch size randperm is given.
perm_len(batch, fields) == batch[fields[1]].shape[1]

\* Lines 60-75, on the batch the runner hands over.
on_batch_start ==
    /\ pc = "loader"
    /\ \E batch \in BatchTable[self.fields] :
        /\ input0' = batch
        /\ IF inactive(self)
           THEN /\ input' = batch
                /\ self' = self
                /\ draws' = NoDraws
                /\ pc' = "batch"
                /\ err' = err
           ELSE \E lam0 \in first_lam(self.alpha) :
                \E index \in randperm(perm_len(batch, self.fields)) :
                \E centres \in [1..Len(self.fields) -> (0..(MaxDim - 1)) \X (0..(MaxDim - 1))] :
                    /\ \A k \in 1..Len(self.fields) :
                          centres[k] \in Centres(batch[self.fields[k]].shape)
                    /\ \E st \in {mix_loop(self.fields, 1,
                                     [tensors |-> batch, lam |-> lam0,
                                      boxes |-> <<>>, raised |-> "none"],
                                     index, centres)} :
                           /\ input' = st.tensors
                           /\ self' = [self EXCEPT !.lam = st.lam,
                                                   !.index = Some(index)]
                           /\ draws' = [lam |-> lam0, index |-> index,
                                        boxes |-> st.boxes]
                           /\ err' = st.raised
                           /\ pc' = IF st.raised = "none" THEN "batch" ELSE "raised"
    /\ UNCHANGED <<args, loader_name, output, loss, bb_size, bb_lam, bb_ret>>

\* CriterionCallback._compute_loss, which line 79 calls.
base_compute_loss(pred, y) == RatInt(criterion(pred, y))

\* The two weights exchanged.
blend_swapped(lam, loss_a, loss_b) ==
    RatAdd(RatMul(RatOneMinus(lam), RatInt(loss_a)), RatMul(lam, RatInt(loss_b)))

\* Lines 85-86.
blend(lam, loss_a, loss_b) ==
    RatAdd(RatMul(lam, RatInt(loss_a)), RatMul(RatOneMinus(lam), RatInt(loss_b)))

\* Line 83: y_a[index].
take(y, index) == [i \in 1..Len(index) |-> y[index[i] + 1]]

\* Lines 77-87, with the predictions the forward pass left in state.output.
_compute_loss ==
    /\ pc = "batch"
    /\ \E pred \in Preds(Len(input[input_key])) :
        /\ output' = pred
        /\ IF inactive(self)
           THEN loss' = base_compute_loss(pred, input[input_key])
           ELSE LET y_a == input[input_key]
                    y_b == take(input[input_key], self.index.v)
                IN  loss' = blend(self.lam, criterion(pred, y_a), criterion(pred, y_b))
    /\ pc' = "batch_end"
    /\ UNCHANGED <<args, self, err, loader_name, input, input0, draws,
                   bb_size, bb_lam, bb_ret>>

\* The runner takes the loss and lets go of the batch.
batch_end ==
    /\ pc = "batch_end"
    /\ pc' = "loader"
    /\ input' = NoBatch
    /\ input0' = NoBatch
    /\ output' = NoOutput
    /\ loss' = NoLoss
    /\ draws' = NoDraws
    /\ UNCHANGED <<args, self, err, loader_name, bb_size, bb_lam, bb_ret>>

\* rand_bbox alone, on the size and lam it was given.
call_rand_bbox ==
    /\ pc = "rand_bbox"
    /\ bb_ret = NoBox
    /\ \E c \in Centres(bb_size) :
        bb_ret' = [called |-> TRUE, cx |-> c[1], cy |-> c[2],
                   ret |-> rand_bbox(bb_size, bb_lam, c[1], c[2])]
    /\ UNCHANGED <<args, self, pc, err, loader_name, input, input0, output,
                   loss, draws, bb_size, bb_lam>>

----------------------------------------------------------------------------
\* Specifications.

NoCall == /\ bb_size = <<>> /\ bb_lam = <<>> /\ bb_ret = NoBox

NoBatchYet ==
    /\ err = "none"
    /\ loader_name = NoLoader
    /\ input = NoBatch
    /\ input0 = NoBatch
    /\ output = NoOutput
    /\ loss = NoLoss
    /\ draws = NoDraws

\* A run of the callback from before its construction, over any number of
\* loaders and batches, with at most one listed field.
Init ==
    /\ args \in {a \in ArgSets : Len(a.fields) <= 1}
    /\ self = NoAttrs
    /\ pc = "new"
    /\ NoBatchYet
    /\ NoCall

Next ==
    \/ __init__
    \/ on_loader_start
    \/ on_batch_start
    \/ _compute_loss
    \/ batch_end

Spec == Init /\ [][Next]_vars

\* A constructed callback with any list of fields, through the loaders it is
\* started on and the first batch it is given.
MixInit ==
    /\ args \in {a \in ArgSets : valid_args(a)}
    /\ self = constructed(args)
    /\ pc = "constructed"
    /\ NoBatchYet
    /\ NoCall

MixNext ==
    \/ on_loader_start
    \/ on_batch_start
    \/ _compute_loss

SpecMix == MixInit /\ [][MixNext]_vars

\* rand_bbox as a function of its arguments and its draws.
BoxSizes ==
    UNION {{<<1, 1, w, h>>, <<1, w, h>>} : w \in 1..BoxMaxDim, h \in 1..BoxMaxDim}
        \cup {<<1, 1>>, <<1, 1, 1, 1, 1>>}
BoxLams ==
    {Rat(l[1], l[2]) :
        l \in {x \in (0..BoxLamDen) \X (1..BoxLamDen) : x[1] <= x[2]}}

BoxInit ==
    /\ args = [fields |-> <<"features">>, alpha |-> 1, on_train_only |-> TRUE]
    /\ self = NoAttrs
    /\ pc = "rand_bbox"
    /\ NoBatchYet
    /\ bb_size \in BoxSizes
    /\ bb_lam \in BoxLams
    /\ bb_ret = NoBox

BoxNext == call_rand_bbox

SpecBox == BoxInit /\ [][BoxNext]_vars

----------------------------------------------------------------------------
\* Properties.

\* A batch whose on_batch_start ran with the transform active and returned.
Mixed == pc \in {"batch", "batch_end"} /\ self.is_needed

Identity(n) == [i \in 1..n |-> i - 1]
BoxArea(box) == (box[3] - box[1]) * (box[4] - box[2])
\* size()[-1] * size()[-2]
Extent(size) == size[Len(size)] * size[Len(size) - 1]
\* The box drawn for the last listed field, and the size of that field.
LastBox == draws.boxes[Len(draws.boxes)]
\* criterion(pred, y_a) and criterion(pred, y_b) of the batch in flight, with
\* y_b[i] = y_a[index[i]] for the permutation on_batch_start drew.
LossA == criterion(output, input0[input_key])
LossB ==
    criterion(output,
              [i \in 1..Len(input0[input_key]) |->
                  input0[input_key][draws.index[i] + 1]])

\* C1: while the activity flag is false, on_batch_start changes no field
\* tensor, no target, not lam and not index, and _compute_loss returns the
\* criterion on the predictions and the original targets, unblended.
C1_InactiveIsNoOp ==
    [][/\ (pc = "loader" /\ pc' # "loader" /\ ~self.is_needed)
            => (pc' = "batch" /\ self' = self /\ input' = input0' /\ err' = err)
       /\ (pc = "batch" /\ pc' = "batch_end" /\ ~self.is_needed)
            => /\ loss' = <<criterion(output', input0[input_key]), 1>>
               /\ self' = self
               /\ input' = input0]_vars

\* An inactive batch with its loss computed, after an earlier active batch
\* left a lam other than 1 and an index behind.
C1_Witness ==
    /\ pc = "batch_end"
    /\ ~self.is_needed
    /\ self.lam # <<1, 1>>
    /\ self.index # None
    /\ loss # <<0, 1>>

\* C2: once a loader has started, the activity flag is (not on_train_only) or
\* (the name of the loader started last begins with "train"), whatever the
\* phases before it were.
C2_FlagFollowsLoader ==
    loader_name # NoLoader =>
        (self.is_needed <=> (~self.on_train_only \/ loader_name \in {train, trainval}))

\* An inactive validation batch of a callback that mixed a batch in an earlier
\* phase.
C2_Witness ==
    /\ pc = "batch"
    /\ self.on_train_only
    /\ loader_name = valid
    /\ ~self.is_needed
    /\ self.index # None

\* C3: the loss of an active batch is lam * criterion(pred, y_a) +
\* (1 - lam) * criterion(pred, y_b), with y_b[i] = y_a[index[i]], index the
\* permutation of 0..N-1 and lam the value this batch's on_batch_start stored.
C3_BlendedLoss ==
    (pc = "batch_end" /\ self.is_needed) =>
        LET n == Len(input0[input_key])
            den == Extent(LastBox.size)
            kept == den - BoxArea(LastBox.box)
        IN  /\ self.index = Some(draws.index)
            /\ Len(draws.index) = n
            /\ {draws.index[i] : i \in 1..n} = 0..(n - 1)
            /\ self.lam[1] * den = self.lam[2] * kept
            /\ loss[1] * den = loss[2] * (kept * LossA + (den - kept) * LossB)

\* An active batch with its loss computed, lam strictly between 0 and 1, a
\* permutation that moves rows, and different losses on y_a and y_b.
C3_Witness ==
    /\ pc = "batch_end"
    /\ self.is_needed
    /\ 0 < self.lam[1] /\ self.lam[1] < self.lam[2]
    /\ draws.index # Identity(Len(draws.index))
    /\ LossA # LossB
    /\ LossA # 0

\* C4: with alpha = 0 an active batch has lam = 1 before the boxes, every box
\* is empty, lam is 1 afterwards, no field changes and the loss is
\* criterion(pred, y_a), whatever the permutation and the centres.
C4_AlphaZero ==
    (self.constructed /\ self.alpha = 0) =>
        /\ (pc = "raised" /\ draws # NoDraws)
              => (draws.lam = <<1, 1>> /\ self.lam = <<1, 1>>)
        /\ Mixed =>
              /\ draws.lam = <<1, 1>>
              /\ \A k \in 1..Len(draws.boxes) : BoxArea(draws.boxes[k].box) = 0
              /\ self.lam = <<1, 1>>
              /\ input = input0
        /\ (Mixed /\ pc = "batch_end") => loss = <<LossA, 1>>

\* An active alpha = 0 batch of two fields with its loss computed, whose
\* permutation moves rows and whose y_b gives another criterion value.
C4_Witness ==
    /\ pc = "batch_end"
    /\ self.is_needed
    /\ self.alpha = 0
    /\ Len(self.fields) = 2
    /\ draws.index # Identity(Len(draws.index))
    /\ LossA # LossB

\* C5: for W, H >= 1, lam in [0, 1] and a centre with 0 <= cx < W and
\* 0 <= cy < H, rand_bbox returns 0 <= x1 <= x2 <= W and 0 <= y1 <= y2 <= H.
C5_BoxInBounds ==
    (bb_ret.called /\ bb_ret.ret.raised = "none") =>
        LET W == bb_size[Len(bb_size) - 1]
            H == bb_size[Len(bb_size)]
            b == bb_ret.ret.box
        IN  /\ 0 <= b[1] /\ b[1] <= b[3] /\ b[3] <= W
            /\ 0 <= b[2] /\ b[2] <= b[4] /\ b[4] <= H

\* A box cut off at the upper limit of W and at the lower limit of H, for a
\* lam strictly between 0 and 1.
C5_Witness ==
    /\ bb_ret.called
    /\ bb_ret.ret.raised = "none"
    /\ 0 < bb_lam[1] /\ bb_lam[1] < bb_lam[2]
    /\ LET W == bb_size[Len(bb_size) - 1]
           H == bb_size[Len(bb_size)]
           b == bb_ret.ret.box
       IN  /\ b[3] = W /\ b[3] - bb_ret.cx < bb_ret.cx - b[1]
           /\ b[2] = 0 /\ bb_ret.cy - b[2] < b[4] - bb_ret.cy

\* C6: the stored lam is in [0, 1] in every state of a constructed callback.
C6_LamInUnitInterval ==
    self.constructed =>
        /\ self.lam[2] > 0
        /\ 0 <= self.lam[1]
        /\ self.lam[1] <= self.lam[2]

\* An active batch of two fields that left lam strictly between 0 and 1.
C6_Witness ==
    /\ Mixed
    /\ Len(self.fields) = 2
    /\ 0 < self.lam[1] /\ self.lam[1] < self.lam[2]

\* C7: an active on_batch_start returns when every listed field has rank 3
\* or 4, and raises when a listed field has another rank.
C7_RankThreeAndFourAccepted ==
    (pc \in {"batch", "batch_end", "raised"} /\ self.is_needed /\ input0 # NoBatch) =>
        ((pc # "raised") <=>
            \A k \in 1..Len(self.fields) :
                Len(input0[self.fields[k]].shape) \in {3, 4})

\* C8: __init__ with an empty field list or alpha < 0 raises before it assigns
\* any attribute; otherwise it leaves lam = 1, no index and the flag true.
C8_Construction ==
    LET ok == Len(args.fields) > 0 /\ args.alpha >= 0
    IN  /\ (pc # "new" /\ ~ok)
            => (pc = "raised" /\ err = "AssertionError" /\ self = NoAttrs)
        /\ (pc # "new" /\ ok) => self.constructed
        /\ pc = "constructed"
            => /\ ok
               /\ self.lam = <<1, 1>>
               /\ self.index = None
               /\ self.is_needed = TRUE
               /\ self.fields = args.fields
               /\ self.alpha = args.alpha
               /\ self.on_train_only = args.on_train_only

\* A construction that failed on alpha < 0 alone.
C8_Witness ==
    /\ pc = "raised"
    /\ err = "AssertionError"
    /\ Len(args.fields) > 0
    /\ args.alpha < 0

\* What C9 says of the k-th listed field: inside its box every row holds the
\* content the row index[row] had before the call, outside nothing changed,
\* and the shape is the same.
SplicedFromBefore(k) ==
    LET f == self.fields[k]
        box == draws.boxes[k].box
    IN  /\ draws.boxes[k].field = f
        /\ input[f].shape = input0[f].shape
        /\ DOMAIN input[f].data = DOMAIN input0[f].data
        /\ \A t \in DOMAIN input0[f].data :
              input[f].data[t] =
                 IF /\ box[1] <= t[3] /\ t[3] < box[3]
                    /\ box[2] <= t[4] /\ t[4] < box[4]
                 THEN input0[f].data[<<draws.index[t[1] + 1], t[2], t[3], t[4]>>]
                 ELSE input0[f].data[t]

\* C9 as claimed: after an active on_batch_start on fields of rank 4, every
\* listed field is spliced from its content before the call by one and the
\* same permutation.
C9_EveryListedField ==
    (pc = "batch" /\ self.is_needed) =>
        /\ self.index = Some(draws.index)
        /\ \A k \in 1..Len(self.fields) : SplicedFromBefore(k)

\* C9 as amended: the same, for a list that names no field twice.
C9_FieldsListedOnce ==
    (/\ pc = "batch"
     /\ self.is_needed
     /\ \A j, k \in 1..Len(self.fields) : self.fields[j] = self.fields[k] => j = k) =>
        /\ self.index = Some(draws.index)
        /\ \A k \in 1..Len(self.fields) : SplicedFromBefore(k)

\* Two different fields, both with a box that is not empty, mixed by a
\* permutation that moves rows.
C9_Witness ==
    /\ pc = "batch"
    /\ self.is_needed
    /\ self.fields = <<"features", "mask">>
    /\ draws.index # Identity(Len(draws.index))
    /\ \A k \in 1..2 : BoxArea(draws.boxes[k].box) > 0
    /\ input["features"] # input0["features"]
    /\ input["mask"] # input0["mask"]

\* C10: after an active on_batch_start, one box was drawn per listed field in
\* list order and the stored lam is 1 - area / (W * H) of the last listed
\* field's box; the loss is blended with that lam.
C10_LastFieldWins ==
    Mixed =>
        LET den == Extent(LastBox.size)
            kept == den - BoxArea(LastBox.box)
        IN  /\ Len(draws.boxes) = Len(self.fields)
            /\ \A k \in 1..Len(self.fields) :
                  /\ draws.boxes[k].field = self.fields[k]
                  /\ draws.boxes[k].size = input0[self.fields[k]].shape
            /\ self.lam[1] * den = self.lam[2] * kept
            /\ pc = "batch_end" =>
                  loss[1] * den = loss[2] * (kept * LossA + (den - kept) * LossB)

\* Two listed fields whose boxes keep different fractions, with the loss
\* computed on different criterion values.
C10_Witness ==
    /\ pc = "batch_end"
    /\ self.is_needed
    /\ Len(self.fields) = 2
    /\ BoxArea(draws.boxes[1].box) * Extent(draws.boxes[2].size)
          # BoxArea(draws.boxes[2].box) * Extent(draws.boxes[1].size)
    /\ LossA # LossB

====
